---- MODULE Spec2Model ----
(***************************************************************************)
(* pedestal-rs, module tokio_proc: ChildWrapper (spawn / attach / wait /   *)
(* try_wait / start_kill / kill), the exit-status translation              *)
(* wait_to_exit, and ProcessHandle (fork_hook / fork / hold_process).      *)
(*                                                                         *)
(* The module holds four state machines over disjoint groups of variables: *)
(*   SpecExit   the pure function wait_to_exit applied to every raw        *)
(*              wait outcome;                                              *)
(*   Spec       one held OS process, two controller instances (A, its OS   *)
(*              parent, and B, an unrelated instance) and the handle       *)
(*              operations;                                                *)
(*   SpecSpawn  the body of ChildWrapper::spawn step by step (named pipes, *)
(*              background task, process creation) and the byte traffic    *)
(*              through the pipes afterwards;                              *)
(*   SpecFork   program start-up through ProcessHandle::fork_hook in every *)
(*              instance that the daemonization protocol launches.         *)
(***************************************************************************)
EXTENDS Integers, Sequences, FiniteSets, TLC

VARIABLES
    \* ---- SpecExit
    wsIn,       \* the nix WaitStatus handed to wait_to_exit
    exOut,      \* the raw value given to ExitStatus::from_raw, or NoStatus
    \* ---- Spec
    proc,       \* the held OS process: state, OS parent, raw wait status
    alive,      \* alive[i]: controller instance i has not exited
    owned,      \* instance A's ChildHandle::Owned(Child): "none", "child" or "done"
    ownedStatus,\* the status tokio's Child caches once it is done
    attached,   \* attached[i]: instance i holds a ChildHandle::Attached(pid)
    att,        \* att[i]: position of instance i inside attach()
    killing,    \* killing[i]: the kill() of instance i between start_kill and wait
    dirPipes,   \* the named pipes present in the working directory
    last,       \* the last handle operation that returned, with its result
    \* ---- SpecSpawn
    rt,         \* the tokio runtime flavor the caller of spawn runs on
    cpc,        \* position of the calling task inside spawn
    cidx,       \* index of the pipe the calling task is opening
    bpc,        \* position of the background task of spawn
    bidx,       \* index of the pipe the background task is opening
    paths,      \* what is at each of the three pipe paths
    paths0,     \* what was at the three paths when spawn was called
    sOpen,      \* subject-side pipe ends that are open
    cOpen,      \* controller-side pipe ends that are open
    xOpen,      \* controller-side pipe ends that another task or process has open
    child,      \* the OS process created by command.spawn()
    buf,        \* bytes in flight in each named pipe
    catBuf,     \* bytes the child has read and not yet written
    sent,       \* every byte written to the handle's stdin endpoint
    received,   \* every byte read from the handle's stdout endpoint
    stdinShut,  \* the handle's stdin endpoint has been closed
    outEof,     \* a read on the handle's stdout endpoint returned 0
    killPc,     \* position of the doc test's child.kill(): "-", "wait" or "done"
    ex,         \* the raw status that child.kill() returned, or NoStatus
    \* ---- SpecFork
    procs,      \* the OS processes running the program, by pid
    nproc,      \* the number of pids handed out
    gpidFile,   \* content of the guard file .gpid (0: no file)
    progHook,   \* the program calls ProcessHandle::fork_hook() first in main()
    holdRet,    \* what hold_process returned in the Requester
    spawnHoldRet,\* what spawn_hold returned in the Requester
    holdStatus, \* the raw exit status inside the Ok of hold_process
    held,       \* the held process of spawn_hold: state and OS parent
    pidFile,    \* content of the PID file .pid (NoFile: no file)
    \* ---- SpecVec
    vec,        \* CircularVec.vec: the slots, indexed from 0; NoItem is None
    head,       \* CircularVec.head
    tail,       \* CircularVec.tail
    queue,      \* the reference bounded FIFO queue, oldest element first
    cvRet,      \* what the last push or pop returned, and what the reference returned
    \* ---- SpecPath
    npIn,       \* the path p handed to fs::path::normalize
    npOut       \* its result: Ok(path) or Err(InvalidInput)

exitVars == <<wsIn, exOut>>
procVars == <<proc, alive, owned, ownedStatus, attached, att, killing, dirPipes, last>>
spawnVars == <<rt, cpc, cidx, bpc, bidx, paths, paths0, sOpen, cOpen, xOpen, child, buf,
               catBuf, sent, received, stdinShut, outEof, killPc, ex>>
forkVars == <<procs, nproc, gpidFile, progHook, holdRet, spawnHoldRet, holdStatus,
             held, pidFile>>
vecVars == <<vec, head, tail, queue, cvRet>>
pathVars == <<npIn, npOut>>
vars == <<exitVars, procVars, spawnVars, forkVars, vecVars, pathVars>>
notProcVars == <<exitVars, spawnVars, forkVars, vecVars, pathVars>>
notExitVars == <<procVars, spawnVars, forkVars, vecVars, pathVars>>
notSpawnVars == <<exitVars, procVars, forkVars, vecVars, pathVars>>
notForkVars == <<exitVars, procVars, spawnVars, vecVars, pathVars>>
notVecVars == <<exitVars, procVars, spawnVars, forkVars, pathVars>>
notPathVars == <<exitVars, procVars, spawnVars, forkVars, vecVars>>

\* No exit status / no pid: Option::None.
NoStatus == -1

(***************************************************************************)
(* std::process::ExitStatus on unix: a raw wait status (int).              *)
(***************************************************************************)
\* ExitStatus::success(): exit_ok(), the raw status is zero.
Success(raw) == raw = 0

\* WIFEXITED: the low seven bits are zero.
IfExited(raw) == raw % 128 = 0

\* ExitStatus::code(): WEXITSTATUS when WIFEXITED, else None.
Code(raw) == IF IfExited(raw) THEN (raw \div 256) % 256 ELSE NoStatus

\* WIFSIGNALED: ((status & 0x7f) + 1) as i8 >= 2.
IfSignaled(raw) == (raw % 128) # 0 /\ (raw % 128) # 127

\* ExitStatusExt::signal(): WTERMSIG when WIFSIGNALED, else None.
TermSignal(raw) == IF IfSignaled(raw) THEN raw % 128 ELSE NoStatus

(***************************************************************************)
(* nix::sys::wait::WaitStatus.  n is the exit code (Exited) or the signal  *)
(* number (Signaled, Stopped, PtraceEvent), core the core-dump flag.       *)
(***************************************************************************)
\* nix::sys::signal::Signal: SIGHUP (1) .. SIGSYS (31).
Signals == 1..31

ExitCodes == 0..255

WS(kind, n, core) == [kind |-> kind, n |-> n, core |-> core]

WaitStatuses ==
    {WS("Exited", c, FALSE) : c \in ExitCodes}
    \cup {WS("Signaled", s, d) : s \in Signals, d \in BOOLEAN}
    \cup {WS("Stopped", s, FALSE) : s \in Signals}
    \cup {WS("PtraceEvent", s, FALSE) : s \in Signals}
    \cup {WS("PtraceSyscall", 0, FALSE), WS("Continued", 0, FALSE),
          WS("StillAlive", 0, FALSE)}

\* The kernel's encoding of a terminated process: code << 8, or sig | 0x80.
RawExited(c) == c * 256
RawSignaled(s, core) == s + (IF core THEN 128 ELSE 0)

\* WaitStatus::from_raw for a terminated process (WIFEXITED / WIFSIGNALED).
FromRaw(raw) ==
    IF IfExited(raw) THEN WS("Exited", (raw \div 256) % 256, FALSE)
    ELSE WS("Signaled", raw % 128, (raw \div 128) % 2 = 1)

\* Mutant: the non-terminal outcomes translated to from_raw(0).
wait_to_exit_zero(wait) ==
    CASE wait.kind = "Exited" -> wait.n
      [] wait.kind \in {"Signaled", "Stopped", "PtraceEvent"} -> wait.n
      [] wait.kind = "PtraceSyscall" -> 1
      [] wait.kind = "Continued" -> 0
      [] wait.kind = "StillAlive" -> 0

\* fn wait_to_exit(wait: WaitStatus) -> ExitStatus, as the raw value it
\* passes to ExitStatus::from_raw.
wait_to_exit(wait) ==
    CASE wait.kind = "Exited" -> wait.n
      [] wait.kind \in {"Signaled", "Stopped", "PtraceEvent"} -> wait.n
      [] wait.kind = "PtraceSyscall" -> 1
      [] wait.kind = "Continued" -> 1
      [] wait.kind = "StillAlive" -> 1

(***************************************************************************)
(* SpecExit: wait_to_exit on every WaitStatus.                             *)
(***************************************************************************)
InitExit ==
    /\ wsIn \in WaitStatuses
    /\ exOut = NoStatus

IdleExit ==
    /\ wsIn = WS("StillAlive", 0, FALSE)
    /\ exOut = NoStatus

Translate ==
    /\ exOut = NoStatus
    /\ exOut' = wait_to_exit(wsIn)
    /\ UNCHANGED wsIn

(***************************************************************************)
(* Spec: the held process and the handle operations of ChildWrapper.       *)
(***************************************************************************)
\* Controller instances: A calls spawn and is the OS parent of the held
\* process; B is a fresh instance of the program, started independently.
Insts == {"A", "B"}

\* Exit codes the held command may end with on its own.
MaxExitCode == 2
ChildExitCodes == 0..MaxExitCode

\* Signal::SIGKILL
SIGKILL == 9

STDIN_FILE_PATH == "stdin"
STDOUT_FILE_PATH == "stdout"
STDERR_FILE_PATH == "stderr"
PipeNames == {STDIN_FILE_PATH, STDOUT_FILE_PATH, STDERR_FILE_PATH}

NoProc == [state |-> "none", parent |-> "init", wstatus |-> NoStatus,
           long |-> FALSE, held |-> FALSE, reuse |-> "none"]

NoOp == [op |-> "none", inst |-> "A", kind |-> "-", out |-> "-",
         status |-> NoStatus, pre |-> NoProc, post |-> NoProc,
         parentAlive |-> TRUE, fresh |-> FALSE]

\* What an operation of instance i returned: pre and post are the held
\* process when it was called and when it returned.
Ret(op, i, kind, out, status, pre, post, fresh) ==
    [op |-> op, inst |-> i, kind |-> kind, out |-> out, status |-> status,
     pre |-> pre, post |-> post, parentAlive |-> alive["A"], fresh |-> fresh]

\* The kernel ends the process with raw wait status raw: a child of a live
\* parent stays a zombie until that parent waits; init reaps at once.
Terminated(p, raw) ==
    [p EXCEPT !.state = IF p.parent = "init" THEN "reaped" ELSE "zombie",
              !.wstatus = raw]

Reaped(p) == [p EXCEPT !.state = "reaped"]

\* The pid of the reaped process p names another process.
PidTaken(p) == p.state = "reaped" /\ p.reuse = "taken"

\* kill(2) with SIGKILL: ends a running process, leaves a zombie as it is,
\* and ends whatever process has taken the pid of a reaped one.
Signalled(p) ==
    IF p.state = "running" THEN Terminated(p, RawSignaled(SIGKILL, FALSE))
    ELSE IF PidTaken(p) THEN [p EXCEPT !.reuse = "signalled"]
    ELSE p

\* waitpid(2) only answers for a child of the caller that has not been
\* reaped; anything else is ECHILD.
IsChildOf(i) == proc.state \in {"running", "zombie"} /\ proc.parent = i

\* Err(Errno::ECHILD)
WaitErr == WS("Err", 0, FALSE)

\* Mutant: a waitpid that answers again for a child it has already reaped.
WaitPidNoHang_cached(i) ==
    IF proc.state = "reaped" /\ proc.parent = i THEN FromRaw(proc.wstatus)
    ELSE IF proc.state \notin {"running", "zombie"} \/ proc.parent # i THEN WaitErr
    ELSE IF proc.state = "running" THEN WS("StillAlive", 0, FALSE)
    ELSE FromRaw(proc.wstatus)

\* waitpid(pid, WNOHANG) called by instance i: ECHILD or a WaitStatus.
WaitPidNoHang(i) ==
    IF ~IsChildOf(i) THEN WaitErr
    ELSE IF proc.state = "running" THEN WS("StillAlive", 0, FALSE)
    ELSE FromRaw(proc.wstatus)

NoKill == [kind |-> "none", fresh |-> FALSE, pre |-> NoProc]

InitProc ==
    /\ proc = NoProc
    /\ alive = [i \in Insts |-> TRUE]
    /\ owned = "none"
    /\ ownedStatus = NoStatus
    /\ attached = [i \in Insts |-> FALSE]
    /\ att = [i \in Insts |-> [pc |-> "idle", pre |-> NoProc]]
    /\ killing = [i \in Insts |-> NoKill]
    /\ dirPipes = {}
    /\ last = NoOp

\* ChildWrapper::spawn / spawn_hold in instance A, as one step (SpecSpawn
\* and SpecFork have the steps): the pipe set is recreated, the command is
\* started as a child of A and the handle is Owned.  long: the command
\* never ends by itself; hold: the call was spawn_hold.
spawn(long, hold) ==
    /\ alive["A"] /\ proc.state = "none" /\ owned = "none"
    /\ proc' = [state |-> "running", parent |-> "A", wstatus |-> NoStatus,
                long |-> long, held |-> hold, reuse |-> "none"]
    /\ owned' = "child"
    /\ dirPipes' = PipeNames
    /\ last' = Ret("spawn", "A", "Owned", "Ok", NoStatus, proc, proc', FALSE)
    /\ UNCHANGED <<alive, ownedStatus, attached, att, killing>>

\* ChildWrapper::spawn_noerr / spawn_hold_noerr in instance A, as one step:
\* the three paths are cleared, the stdin and stdout pipes are created
\* (lines 143-144) and no stderr pipe; the command is started as a child
\* of A and the handle is Owned.
spawn_noerr(long, hold) ==
    /\ alive["A"] /\ proc.state = "none" /\ owned = "none"
    /\ proc' = [state |-> "running", parent |-> "A", wstatus |-> NoStatus,
                long |-> long, held |-> hold, reuse |-> "none"]
    /\ owned' = "child"
    /\ dirPipes' = {STDIN_FILE_PATH, STDOUT_FILE_PATH}
    /\ last' = Ret("spawn_noerr", "A", "Owned", "Ok", NoStatus, proc, proc', FALSE)
    /\ UNCHANGED <<alive, ownedStatus, attached, att, killing>>

\* The calls that return a fresh Owned handle.
SpawnOps == {"spawn", "spawn_noerr"}

\* The kernel gives the pid of the reaped process to a new process that
\* is no child of the instances followed here.
pid_reuse ==
    /\ proc.state = "reaped" /\ proc.reuse # "taken"
    /\ proc' = [proc EXCEPT !.reuse = "taken"]
    /\ UNCHANGED <<alive, owned, ownedStatus, attached, att, killing, dirPipes, last>>

\* The held command ends by itself with exit code c.
ProcExit(c) ==
    /\ proc.state = "running" /\ ~proc.long
    /\ proc' = Terminated(proc, RawExited(c))
    /\ UNCHANGED <<alive, owned, ownedStatus, attached, att, killing, dirPipes, last>>

\* Instance i exits: its handles are gone (a dropped tokio Child is not
\* killed), its children are reparented to init, which reaps the zombies.
InstExit(i) ==
    /\ alive[i]
    /\ alive' = [alive EXCEPT ![i] = FALSE]
    /\ attached' = [attached EXCEPT ![i] = FALSE]
    /\ att' = [att EXCEPT ![i] = [pc |-> "idle", pre |-> NoProc]]
    /\ killing' = [killing EXCEPT ![i] = NoKill]
    /\ owned' = IF i = "A" THEN "none" ELSE owned
    /\ proc' = IF proc.parent # i THEN proc
               ELSE IF proc.state = "zombie"
                    THEN [proc EXCEPT !.state = "reaped", !.parent = "init"]
               ELSE [proc EXCEPT !.parent = "init"]
    /\ UNCHANGED <<ownedStatus, dirPipes, last>>

\* attach, line 248: the probe waitpid(pid, WNOHANG) did not fail.
attach_probe_passes(i) == WaitPidNoHang(i) # WaitErr

\* ChildWrapper::attach up to the probe: Ok(None) when waitpid fails;
\* otherwise (StillAlive, or a zombie child that the probe has just reaped)
\* the call goes on to open the pipes.
attach(i) ==
    /\ alive[i] /\ att[i].pc = "idle"
    /\ IF ~attach_probe_passes(i)
       THEN /\ last' = Ret("attach", i, "Attached", "None", NoStatus, proc, proc, FALSE)
            /\ UNCHANGED <<proc, att>>
       ELSE /\ proc' = IF proc.state = "zombie" /\ proc.parent = i
                       THEN Reaped(proc) ELSE proc
            /\ att' = [att EXCEPT ![i] = [pc |-> "open", pre |-> proc]]
            /\ UNCHANGED last
    /\ UNCHANGED <<alive, owned, ownedStatus, attached, killing, dirPipes>>

\* The subject side of the pipes is open exactly while the held process runs.
PeerOpen == proc.state = "running"

\* Mutant: an attach that leaves out a stderr pipe that is missing.
AttachOpenResult_optional_stderr ==
    IF STDIN_FILE_PATH \in dirPipes /\ ~PeerOpen THEN "block"
    ELSE IF STDOUT_FILE_PATH \notin dirPipes THEN "Err"
    ELSE IF ~PeerOpen THEN "block"
    ELSE "Some"

\* attach, lines 253-255: File::create(stdin), File::open(stdout) and
\* File::open(stderr), in this order.  An open of a named pipe suspends
\* until the other end is open; File::create of a missing stdin makes a
\* regular file; File::open of a missing stdout or stderr is an error.
AttachOpenResult ==
    IF STDIN_FILE_PATH \in dirPipes /\ ~PeerOpen THEN "block"
    ELSE IF STDOUT_FILE_PATH \notin dirPipes THEN "Err"
    ELSE IF ~PeerOpen THEN "block"
    ELSE IF STDERR_FILE_PATH \notin dirPipes THEN "Err"
    ELSE "Some"

\* attach, lines 251-261: the pipes are reopened and the handle is
\* Attached(pid).
attach_open(i) ==
    /\ alive[i] /\ att[i].pc = "open"
    /\ AttachOpenResult # "block"
    /\ att' = [att EXCEPT ![i] = [pc |-> "idle", pre |-> NoProc]]
    /\ attached' = [attached EXCEPT ![i] = (AttachOpenResult = "Some")]
    /\ last' = Ret("attach", i, "Attached", AttachOpenResult, NoStatus,
                   att[i].pre, proc, FALSE)
    /\ UNCHANGED <<proc, alive, owned, ownedStatus, killing, dirPipes>>

HandleKinds == {"Owned", "Attached"}

\* ChildWrapper::id, lines 267-271.  Owned: tokio's Child::id, which is
\* Some(pid) until the child has been awaited to completion and None once
\* wait or try_wait has returned its status; Attached: Some(stored pid).
IdOutcome(i, k) ==
    IF k = "Owned" /\ owned = "done" THEN "None" ELSE "Some"

\* Instance i holds a handle of kind k that no kill() of its own is using
\* (the operations take &mut self).
HasHandle(i, k) ==
    /\ alive[i]
    /\ killing[i].kind # k
    /\ IF k = "Owned" THEN i = "A" /\ owned # "none" ELSE attached[i]

Outcome(block, out, status, p, o, os) ==
    [block |-> block, out |-> out, status |-> status, proc |-> p,
     owned |-> o, ownedStatus |-> os]

\* wait, lines 283-286: Ok(wait_to_exit(status)) of what waitpid reported.
wait_attached_status(raw) == wait_to_exit(FromRaw(raw))

\* Mutant: a wait that reports success where waitpid fails.
WaitOutcome_fabricated(i, k) ==
    IF k = "Owned"
    THEN IF owned = "done"
         THEN Outcome(FALSE, "Ok", ownedStatus, proc, owned, ownedStatus)
         ELSE IF proc.state = "running"
         THEN Outcome(TRUE, "-", NoStatus, proc, owned, ownedStatus)
         ELSE IF proc.state = "zombie"
         THEN Outcome(FALSE, "Ok", proc.wstatus, Reaped(proc), "done", proc.wstatus)
         ELSE Outcome(FALSE, "Ok", 0, proc, owned, ownedStatus)
    ELSE IF ~IsChildOf(i)
         THEN Outcome(FALSE, "Ok", 0, proc, owned, ownedStatus)
         ELSE IF proc.state = "running"
         THEN Outcome(TRUE, "-", NoStatus, proc, owned, ownedStatus)
         ELSE Outcome(FALSE, "Ok", wait_attached_status(proc.wstatus),
                      Reaped(proc), owned, ownedStatus)

\* ChildWrapper::wait.  Owned: tokio's Child::wait, which returns the
\* cached status once done, suspends while the child runs, reaps it, and
\* fails with ECHILD when the child was reaped behind its back.  Attached:
\* waitpid(pid, None) on a blocking thread.
WaitOutcome(i, k) ==
    IF k = "Owned"
    THEN IF owned = "done"
         THEN Outcome(FALSE, "Ok", ownedStatus, proc, owned, ownedStatus)
         ELSE IF proc.state = "running"
         THEN Outcome(TRUE, "-", NoStatus, proc, owned, ownedStatus)
         ELSE IF proc.state = "zombie"
         THEN Outcome(FALSE, "Ok", proc.wstatus, Reaped(proc), "done", proc.wstatus)
         ELSE Outcome(FALSE, "Err", NoStatus, proc, owned, ownedStatus)
    ELSE IF ~IsChildOf(i)
         THEN Outcome(FALSE, "Err", NoStatus, proc, owned, ownedStatus)
         ELSE IF proc.state = "running"
         THEN Outcome(TRUE, "-", NoStatus, proc, owned, ownedStatus)
         ELSE Outcome(FALSE, "Ok", wait_attached_status(proc.wstatus),
                      Reaped(proc), owned, ownedStatus)

wait(i, k) ==
    /\ HasHandle(i, k)
    /\ LET r == WaitOutcome(i, k) IN
       /\ ~r.block
       /\ proc' = r.proc
       /\ owned' = r.owned
       /\ ownedStatus' = r.ownedStatus
       /\ last' = Ret("wait", i, k, r.out, r.status, proc, r.proc, FALSE)
    /\ UNCHANGED <<alive, attached, att, killing, dirPipes>>

\* ChildWrapper::id (&self).
id(i, k) ==
    /\ HasHandle(i, k)
    /\ last' = Ret("id", i, k, IdOutcome(i, k), NoStatus, proc, proc, FALSE)
    /\ UNCHANGED <<proc, alive, owned, ownedStatus, attached, att, killing, dirPipes>>

\* Mutant: the Attached try_wait without the wait_res.pid().is_none() test.
try_wait_attached_no_test(w) ==
    IF w = WaitErr THEN [out |-> "Err", status |-> NoStatus]
    ELSE [out |-> "Some", status |-> wait_to_exit(w)]

\* try_wait, lines 322-326, on the result w of waitpid(pid, WNOHANG).
try_wait_attached(w) ==
    IF w = WaitErr THEN [out |-> "Err", status |-> NoStatus]
    ELSE IF w.kind = "StillAlive" THEN [out |-> "None", status |-> NoStatus]
    ELSE [out |-> "Some", status |-> wait_to_exit(w)]

\* ChildWrapper::try_wait.  Owned: tokio's Child::try_wait.
TryWaitOutcome(i, k) ==
    IF k = "Owned"
    THEN IF owned = "done"
         THEN Outcome(FALSE, "Some", ownedStatus, proc, owned, ownedStatus)
         ELSE IF proc.state = "running"
         THEN Outcome(FALSE, "None", NoStatus, proc, owned, ownedStatus)
         ELSE IF proc.state = "zombie"
         THEN Outcome(FALSE, "Some", proc.wstatus, Reaped(proc), "done", proc.wstatus)
         ELSE Outcome(FALSE, "Err", NoStatus, proc, owned, ownedStatus)
    ELSE LET w == WaitPidNoHang(i)
             r == try_wait_attached(w)
         IN  Outcome(FALSE, r.out, r.status,
                     IF w # WaitErr /\ proc.state = "zombie" THEN Reaped(proc) ELSE proc,
                     owned, ownedStatus)

try_wait(i, k) ==
    /\ HasHandle(i, k)
    /\ LET r == TryWaitOutcome(i, k) IN
       /\ proc' = r.proc
       /\ owned' = r.owned
       /\ ownedStatus' = r.ownedStatus
       /\ last' = Ret("try_wait", i, k, r.out, r.status, proc, r.proc, FALSE)
    /\ UNCHANGED <<alive, attached, att, killing, dirPipes>>

\* Mutant: start_kill that sends nothing.
StartKillOutcome_no_signal(i, k) ==
    Outcome(FALSE, "Ok", NoStatus, proc, owned, ownedStatus)

\* ChildWrapper::start_kill.  Owned: tokio's Child::start_kill (an error
\* once the child is done, else kill(2)); Attached: kill(pid, SIGKILL).
\* kill(2) fails with ESRCH when the pid no longer exists.
StartKillOutcome(i, k) ==
    IF k = "Owned" /\ owned = "done"
    THEN Outcome(FALSE, "Err", NoStatus, proc, owned, ownedStatus)
    ELSE IF proc.state \in {"running", "zombie"} \/ PidTaken(proc)
    THEN Outcome(FALSE, "Ok", NoStatus, Signalled(proc), owned, ownedStatus)
    ELSE Outcome(FALSE, "Err", NoStatus, proc, owned, ownedStatus)

start_kill(i, k) ==
    /\ HasHandle(i, k)
    /\ LET r == StartKillOutcome(i, k) IN
       /\ proc' = r.proc
       /\ last' = Ret("start_kill", i, k, r.out, NoStatus, proc, r.proc, FALSE)
    /\ UNCHANGED <<alive, owned, ownedStatus, attached, att, killing, dirPipes>>

\* Nothing but the spawn has touched the held process of instance i.
Untouched(i) == att[i].pc = "idle" /\ ~attached[i]

\* ChildWrapper::kill, line 310: self.start_kill()?
kill_start(i, k) ==
    /\ HasHandle(i, k) /\ killing[i].kind = "none"
    /\ LET r == StartKillOutcome(i, k) IN
       /\ proc' = r.proc
       /\ IF r.out = "Err"
          THEN /\ last' = Ret("kill", i, k, "Err", NoStatus, proc, r.proc,
                               last.op \in SpawnOps /\ Untouched(i))
               /\ UNCHANGED killing
          ELSE /\ killing' = [killing EXCEPT ![i] =
                     [kind |-> k, fresh |-> last.op \in SpawnOps /\ Untouched(i),
                      pre |-> proc]]
               /\ UNCHANGED last
    /\ UNCHANGED <<alive, owned, ownedStatus, attached, att, dirPipes>>

\* ChildWrapper::kill, line 311: self.wait().await
kill_wait(i) ==
    /\ alive[i] /\ killing[i].kind # "none"
    /\ LET k == killing[i].kind
           r == WaitOutcome(i, k)
       IN
       /\ ~r.block
       /\ proc' = r.proc
       /\ owned' = r.owned
       /\ ownedStatus' = r.ownedStatus
       /\ last' = Ret("kill", i, k, r.out, r.status, killing[i].pre, r.proc,
                      killing[i].fresh /\ Untouched(i))
    /\ killing' = [killing EXCEPT ![i] = NoKill]
    /\ UNCHANGED <<alive, attached, att, dirPipes>>

(***************************************************************************)
(* SpecSpawn: ChildWrapper::spawn step by step, then the byte traffic of   *)
(* the documented example (the child copies its stdin to its stdout).      *)
(***************************************************************************)
\* Bytes the controller may write, how many, and the capacity of a pipe.
Bytes == {"a", "b"}
MaxMsg == 3
PipeCap == 2

\* spawn, lines 103-105: the order in which the background task opens the
\* controller side (stdin for write, stdout and stderr for read).
ControllerOrder == <<STDIN_FILE_PATH, STDOUT_FILE_PATH, STDERR_FILE_PATH>>

\* spawn, lines 111-113: the order in which the calling task opens the
\* subject side (stdin for read, stdout and stderr for write).
SubjectOrder == <<STDIN_FILE_PATH, STDOUT_FILE_PATH, STDERR_FILE_PATH>>

\* Mutant: the child's stdout is wired to the stderr pipe.
SubjectStdout_stderr == STDERR_FILE_PATH

\* spawn, lines 111 and 115: the pipe behind the child's stdin.
SubjectStdin == STDIN_FILE_PATH
\* spawn, lines 112 and 116: the pipe behind the child's stdout.
SubjectStdout == STDOUT_FILE_PATH
\* spawn, lines 103 and 124: the pipe behind the handle's stdin endpoint.
HandleStdin == STDIN_FILE_PATH
\* spawn, lines 104 and 125: the pipe behind the handle's stdout endpoint.
HandleStdout == STDOUT_FILE_PATH

NoBytes == [p \in PipeNames |-> << >>]

IdleSpawn ==
    /\ rt = "multi_thread"
    /\ cpc = "ret_err" /\ cidx = 1
    /\ bpc = "none" /\ bidx = 1
    /\ paths = [p \in PipeNames |-> "absent"]
    /\ paths0 = paths
    /\ sOpen = {} /\ cOpen = {} /\ xOpen = {}
    /\ child = "none"
    /\ buf = NoBytes /\ catBuf = << >>
    /\ sent = << >> /\ received = << >>
    /\ stdinShut = FALSE /\ outEof = FALSE
    /\ killPc = "-" /\ ex = NoStatus

\* What spawn can find at a path: nothing, a file or pipe that something
\* else left, a pipe of the previous spawn on the directory, or a symbolic
\* link whose target is missing.
PathKinds == {"absent", "old", "prev", "dangling"}

\* spawn has just been called: on either runtime flavor, with anything or
\* nothing at the three paths.
InitSpawn ==
    /\ rt \in {"multi_thread", "current_thread"}
    /\ cpc = "remove" /\ cidx = 1
    /\ bpc = "none" /\ bidx = 1
    /\ paths \in [PipeNames -> PathKinds \ {"prev"}]
    /\ paths0 = paths
    /\ sOpen = {} /\ cOpen = {} /\ xOpen = {}
    /\ child = "none"
    /\ buf = NoBytes /\ catBuf = << >>
    /\ sent = << >> /\ received = << >>
    /\ stdinShut = FALSE /\ outEof = FALSE
    /\ killPc = "-" /\ ex = NoStatus

pipeVars == <<sOpen, cOpen, xOpen>>
docVars == <<killPc, ex>>
ioVars == <<buf, catBuf, sent, received, stdinShut, outEof, docVars>>

\* lines 89-91: metadata follows symbolic links, so it is Ok for a file or
\* pipe and an error where nothing is or the link's target is missing.
MetadataOk(kind) == kind \in {"old", "prev", "fifo"}

\* The pipes spawn has dealt with before it reaches the k-th one.
Before(k) == {SubjectOrder[j] : j \in 1..(k - 1)}

\* lines 89-91: whatever metadata finds at the three paths is removed.
sp_remove ==
    /\ cpc = "remove"
    /\ paths' = [p \in PipeNames |-> IF MetadataOk(paths[p]) THEN "absent" ELSE paths[p]]
    /\ cpc' = "mkfifo"
    /\ UNCHANGED <<rt, paths0, cidx, bpc, bidx, pipeVars, child, ioVars>>

\* lines 89-91: a remove_file fails and spawn returns the error.
sp_remove_err ==
    /\ cpc = "remove"
    /\ \E k \in 1..Len(SubjectOrder) :
          /\ MetadataOk(paths[SubjectOrder[k]])
          /\ paths' = [p \in PipeNames |->
                         IF p \in Before(k) /\ MetadataOk(paths[p])
                         THEN "absent" ELSE paths[p]]
    /\ cpc' = "ret_err"
    /\ UNCHANGED <<rt, paths0, cidx, bpc, bidx, pipeVars, child, ioVars>>

\* Mutant: a mkfifo that takes EEXIST for success.
MkfifoOk_any(kind) == TRUE

\* lines 94-96: mkfifo creates a pipe where nothing is, and fails with
\* EEXIST where something is (a symbolic link included).
MkfifoOk(kind) == kind = "absent"

\* lines 94-96: three fresh named pipes.
sp_mkfifo ==
    /\ cpc = "mkfifo"
    /\ \A p \in PipeNames : MkfifoOk(paths[p])
    /\ paths' = [p \in PipeNames |-> IF paths[p] = "absent" THEN "fifo" ELSE paths[p]]
    /\ cpc' = "tokio_spawn"
    /\ UNCHANGED <<rt, paths0, cidx, bpc, bidx, pipeVars, child, ioVars>>

\* lines 94-96: the k-th mkfifo fails and spawn returns the error.
sp_mkfifo_err ==
    /\ cpc = "mkfifo"
    /\ \E k \in 1..Len(SubjectOrder) :
          /\ \A p \in Before(k) : MkfifoOk(paths[p])
          /\ paths' = [p \in PipeNames |->
                         IF p \in Before(k) /\ paths[p] = "absent"
                         THEN "fifo" ELSE paths[p]]
    /\ cpc' = "ret_err"
    /\ UNCHANGED <<rt, paths0, cidx, bpc, bidx, pipeVars, child, ioVars>>

\* line 102: tokio::spawn queues the background task.
sp_tokio_spawn ==
    /\ cpc = "tokio_spawn"
    /\ bpc' = "queued"
    /\ cpc' = "open"
    /\ UNCHANGED <<rt, paths0, cidx, bidx, paths, pipeVars, child, ioVars>>

\* A thread of the runtime can poll the background task: another worker on
\* the multi-thread runtime; on the current-thread runtime only while the
\* calling task is suspended at an .await (line 120), since the opens of
\* lines 111-113 are std::fs calls that block the thread.
ThreadFree == rt = "multi_thread" \/ cpc = "await"

\* The background task is polled for the first time and issues its first open.
bg_poll ==
    /\ bpc = "queued" /\ ThreadFree
    /\ bpc' = "open"
    /\ UNCHANGED <<rt, paths0, cpc, cidx, bidx, paths, pipeVars, child, ioVars>>

\* line 103: the first open of the background task fails (open(2) reports
\* its errors before it waits for the other end) and the task ends.
bg_poll_err ==
    /\ bpc = "queued" /\ ThreadFree
    /\ bpc' = "done_err"
    /\ UNCHANGED <<rt, paths0, cpc, cidx, bidx, paths, pipeVars, child, ioVars>>

\* open(2) on a named pipe returns once the other end is open or is being
\* opened.
SubjectPeerReady(p) ==
    p \in cOpen \/ p \in xOpen \/ (bpc = "open" /\ ControllerOrder[bidx] = p)
ControllerPeerReady(p) ==
    p \in sOpen \/ (cpc = "open" /\ SubjectOrder[cidx] = p)

\* lines 111-113: the calling task opens the next subject-side end.
sub_open ==
    /\ cpc = "open"
    /\ LET p == SubjectOrder[cidx] IN
       /\ paths[p] = "fifo"
       /\ SubjectPeerReady(p)
       /\ sOpen' = sOpen \cup {p}
    /\ IF cidx < Len(SubjectOrder)
       THEN cidx' = cidx + 1 /\ cpc' = "open"
       ELSE cidx' = cidx /\ cpc' = "command_spawn"
    /\ UNCHANGED <<rt, paths0, bpc, bidx, paths, cOpen, xOpen, child, ioVars>>

\* lines 111-113: an open fails and spawn returns the error.
sub_open_err ==
    /\ cpc = "open"
    /\ cpc' = "ret_err"
    /\ UNCHANGED <<rt, paths0, cidx, bpc, bidx, paths, pipeVars, child, ioVars>>

\* lines 103-105: the background task's open completes; polled again, the
\* task issues the next one or finishes.
bg_open ==
    /\ bpc = "open" /\ ThreadFree
    /\ LET p == ControllerOrder[bidx] IN
       /\ paths[p] = "fifo"
       /\ ControllerPeerReady(p)
       /\ cOpen' = cOpen \cup {p}
    /\ IF bidx < Len(ControllerOrder)
       THEN bidx' = bidx + 1 /\ bpc' = "open"
       ELSE bidx' = bidx /\ bpc' = "done_ok"
    /\ UNCHANGED <<rt, paths0, cpc, cidx, paths, sOpen, xOpen, child, ioVars>>

\* lines 104-105: the pending open completes and the next open fails when
\* it is issued; the task ends and drops the files it had opened.
bg_open_err ==
    /\ bpc = "open" /\ ThreadFree
    /\ bidx < Len(ControllerOrder)
    /\ LET p == ControllerOrder[bidx] IN
       /\ paths[p] = "fifo"
       /\ ControllerPeerReady(p)
    /\ cOpen' = {}
    /\ bpc' = "done_err"
    /\ UNCHANGED <<rt, paths0, cpc, cidx, bidx, paths, sOpen, xOpen, child, ioVars>>

\* Another task or process opens the controller side of pipe p while the
\* call is in flight, as ChildWrapper::attach on the same directory does
\* (lines 253-255); its open, too, returns once the subject side is open
\* or being opened.
peer_open(p) ==
    /\ cpc \notin {"ret_ok", "ret_err"}
    /\ paths[p] = "fifo" /\ p \notin xOpen
    /\ ControllerPeerReady(p)
    /\ xOpen' = xOpen \cup {p}
    /\ UNCHANGED <<rt, paths0, cpc, cidx, bpc, bidx, paths, sOpen, cOpen, child, ioVars>>

\* lines 115-118: command.spawn() creates the OS process.
sp_command_spawn ==
    /\ cpc = "command_spawn"
    /\ child' = "running"
    /\ cpc' = "await"
    /\ UNCHANGED <<rt, paths0, cidx, bpc, bidx, paths, pipeVars, ioVars>>

\* lines 115-118: command.spawn() fails and spawn returns the error.
sp_command_spawn_err ==
    /\ cpc = "command_spawn"
    /\ cpc' = "ret_err"
    /\ UNCHANGED <<rt, paths0, cidx, bpc, bidx, paths, pipeVars, child, ioVars>>

\* lines 120-127: handle.await?? and the Owned handle is returned; the
\* Command and with it the parent's copies of the subject-side ends are
\* dropped.
sp_await ==
    /\ cpc = "await" /\ bpc = "done_ok"
    /\ cpc' = "ret_ok"
    /\ UNCHANGED <<rt, paths0, cidx, bpc, bidx, paths, pipeVars, child, ioVars>>

\* line 120: the background task failed and spawn returns its error.
sp_await_err ==
    /\ cpc = "await" /\ bpc = "done_err"
    /\ cpc' = "ret_err"
    /\ UNCHANGED <<rt, paths0, cidx, bpc, bidx, paths, pipeVars, child, ioVars>>

spawnCtl == <<rt, paths0, cpc, cidx, bpc, bidx, paths, pipeVars>>

Min(a, b) == IF a < b THEN a ELSE b
Take(q, k) == SubSeq(q, 1, k)
Drop(q, k) == SubSeq(q, k + 1, Len(q))
IsPrefix(a, b) == Len(a) <= Len(b) /\ Take(b, Len(a)) = a

\* Doc test, lines 59-60: stdin.write_all on the handle's stdin endpoint.
ctl_write(b) ==
    /\ cpc = "ret_ok" /\ ~stdinShut
    /\ Len(sent) < MaxMsg
    /\ Len(buf[HandleStdin]) < PipeCap
    /\ buf' = [buf EXCEPT ![HandleStdin] = Append(@, b)]
    /\ sent' = Append(sent, b)
    /\ UNCHANGED <<spawnCtl, child, catBuf, received, stdinShut, outEof, docVars>>

\* Doc test, line 61 and the end of the write task: the endpoint is closed.
ctl_shutdown ==
    /\ cpc = "ret_ok" /\ ~stdinShut
    /\ stdinShut' = TRUE
    /\ UNCHANGED <<spawnCtl, child, buf, catBuf, sent, received, outEof, docVars>>

\* The child (cat) reads some bytes from its stdin.
cat_read ==
    /\ child = "running" /\ catBuf = << >>
    /\ \E k \in 1..Len(buf[SubjectStdin]) :
          /\ catBuf' = Take(buf[SubjectStdin], k)
          /\ buf' = [buf EXCEPT ![SubjectStdin] = Drop(@, k)]
    /\ UNCHANGED <<spawnCtl, child, sent, received, stdinShut, outEof, docVars>>

\* The child writes what it has read to its stdout, as far as the pipe has room.
cat_write ==
    /\ child = "running" /\ catBuf # << >>
    /\ \E k \in 1..Min(Len(catBuf), PipeCap - Len(buf[SubjectStdout])) :
          /\ buf' = [buf EXCEPT ![SubjectStdout] = @ \o Take(catBuf, k)]
          /\ catBuf' = Drop(catBuf, k)
    /\ UNCHANGED <<spawnCtl, child, sent, received, stdinShut, outEof, docVars>>

\* The child reads end of input (no writer is left on its stdin) and exits.
cat_eof ==
    /\ child = "running" /\ catBuf = << >>
    /\ buf[SubjectStdin] = << >>
    /\ stdinShut \/ cpc = "ret_err"
    /\ SubjectStdin \notin xOpen
    /\ child' = "exited"
    /\ UNCHANGED <<spawnCtl, ioVars>>

\* Doc test, line 66: stdout.read on the handle's stdout endpoint.
ctl_read ==
    /\ cpc = "ret_ok" /\ ~outEof
    /\ \E k \in 1..Len(buf[HandleStdout]) :
          /\ received' = received \o Take(buf[HandleStdout], k)
          /\ buf' = [buf EXCEPT ![HandleStdout] = Drop(@, k)]
    /\ UNCHANGED <<spawnCtl, child, catBuf, sent, stdinShut, outEof, docVars>>

\* A read on the handle's stdout endpoint returns 0: the pipe is empty and
\* the child, its only writer, has exited.
ctl_read_eof ==
    /\ cpc = "ret_ok" /\ ~outEof
    /\ buf[HandleStdout] = << >> /\ child \in {"exited", "signaled", "reaped"}
    /\ outEof' = TRUE
    /\ UNCHANGED <<spawnCtl, child, buf, catBuf, sent, received, stdinShut, docVars>>

\* Doc test, lines 71-73: the write task (write_all, flush, shutdown) and
\* the read task (it has read what was written) have both completed.
DocTasksDone ==
    /\ cpc = "ret_ok" /\ stdinShut
    /\ sent # << >> /\ received = sent

\* Doc test, line 74, and kill, line 310: start_kill on the Owned handle
\* sends SIGKILL, which ends a child that is still running and leaves one
\* that has already exited (and is not yet reaped) as it is.
doc_start_kill ==
    /\ DocTasksDone /\ killPc = "-"
    /\ child' = IF child = "running" THEN "signaled" ELSE child
    /\ killPc' = "wait"
    /\ UNCHANGED <<spawnCtl, buf, catBuf, sent, received, stdinShut, outEof, ex>>

\* kill, line 311: wait reaps the child and returns its wait status: killed
\* by SIGKILL, or the exit code 0 of a cat that had read end of input.
doc_kill_wait ==
    /\ killPc = "wait"
    /\ ex' = IF child = "signaled" THEN RawSignaled(SIGKILL, FALSE) ELSE RawExited(0)
    /\ child' = "reaped"
    /\ killPc' = "done"
    /\ UNCHANGED <<spawnCtl, buf, catBuf, sent, received, stdinShut, outEof>>

\* spawn is called again on the same working directory, after the handle
\* of the earlier call was killed and dropped (doc test, lines 74-75): the
\* new call finds what the earlier one left.
spawn_again ==
    /\ cpc = "ret_ok" /\ killPc = "done"
    /\ paths' = [p \in PipeNames |-> IF paths[p] = "fifo" THEN "prev" ELSE paths[p]]
    /\ paths0' = paths'
    /\ cpc' = "remove" /\ cidx' = 1
    /\ bpc' = "none" /\ bidx' = 1
    /\ sOpen' = {} /\ cOpen' = {} /\ xOpen' = {}
    /\ child' = "none"
    /\ buf' = NoBytes /\ catBuf' = << >>
    /\ sent' = << >> /\ received' = << >>
    /\ stdinShut' = FALSE /\ outEof' = FALSE
    /\ killPc' = "-" /\ ex' = NoStatus
    /\ UNCHANGED rt

SpawnStep ==
    \/ sp_remove \/ sp_mkfifo \/ sp_tokio_spawn \/ bg_poll \/ sub_open
    \/ bg_open \/ sp_command_spawn \/ sp_await

(***************************************************************************)
(* SpecFork: every instance of the program from its start through          *)
(* ProcessHandle::fork_hook, and the Requester's hold_process.             *)
(***************************************************************************)
\* Pids the model hands out.
MaxProcs == 7
Pids == 1..MaxProcs

\* The pid of the first instance (the controller program), and init.
RootPid == 1
InitPid == 0

\* The pid of the held process, and a pid left in a .pid file by something
\* other than this program.
HeldPid == MaxProcs + 1
StalePid == MaxProcs + 2

\* get_val, lines 359-363: None when the file is missing or does not parse.
NoFile == 0

\* The environment markers TK_PROC_FORK_HANDLE_PLS and TK_PROC_FORK_HANDLE.
FORK_REQ_ENV == "FORK_REQ"
FORK_ENV == "FORK_ON"

Unused == [state |-> "unused", pc |-> "-", env |-> {}, parent |-> InitPid,
           by |-> "-", kid |-> InitPid, wstatus |-> 0]

Started(env, parent, by) ==
    [state |-> "run", pc |-> "start", env |-> env, parent |-> parent,
     by |-> by, kid |-> InitPid, wstatus |-> 0]

NoHeld == [state |-> "none", parent |-> InitPid]

\* hold_process, lines 459-464: Command::new(this).env(FORK_REQ_ENV, path);
\* a Command inherits the environment of the process that spawns it.
RequestEnv(env) == env \cup {FORK_REQ_ENV}

\* fork, lines 436-441: Command::new(this).env(FORK_ENV, &path).
GuardEnv(env) == env \cup {FORK_ENV}

IdleFork ==
    /\ procs = [p \in Pids |-> Unused]
    /\ nproc = 0
    /\ gpidFile = 0
    /\ progHook = FALSE
    /\ holdRet = "-"
    /\ spawnHoldRet = "-"
    /\ holdStatus = NoStatus
    /\ held = NoHeld
    /\ pidFile = NoFile

\* The controller program has been started, by a user (no marker) or with
\* TK_PROC_FORK_HANDLE set by hand; the working directory holds no .pid
\* file or one left there by something else (the program writes none).
InitFork ==
    /\ progHook \in BOOLEAN
    /\ \E env \in {{}, {FORK_ENV}} :
          procs = [p \in Pids |-> IF p = RootPid
                                  THEN Started(env, InitPid, "user") ELSE Unused]
    /\ nproc = 1
    /\ gpidFile = 0
    /\ holdRet = "-"
    /\ spawnHoldRet = "-"
    /\ holdStatus = NoStatus
    /\ held = NoHeld
    /\ pidFile \in {NoFile, StalePid}

\* Process p ends: a child of a live process stays a zombie until it is
\* waited for; its own children go to init, which reaps the dead ones.
AfterExit(ps, p) ==
    [q \in Pids |->
        IF q = p
        THEN [ps[q] EXCEPT !.state = IF ps[q].parent = InitPid THEN "gone" ELSE "zombie",
                           !.pc = "exited"]
        ELSE IF ps[q].parent = p /\ ps[q].state # "unused"
        THEN [ps[q] EXCEPT !.parent = InitPid,
                           !.state = IF @ = "zombie" THEN "gone" ELSE @]
        ELSE ps[q]]

\* The same for the held process when its parent p ends.
HeldAfterExit(h, p) ==
    IF h.parent = p /\ h.state # "none"
    THEN [h EXCEPT !.parent = InitPid, !.state = IF @ = "zombie" THEN "gone" ELSE @]
    ELSE h

Running(p) == procs[p].state = "run"

\* Mutant: the flag reads as set in every process.
HAS_HOOK_set(p) == TRUE

\* static HAS_HOOK, line 380, in process p: set by fork_hook (line 478),
\* the first thing main() does in a program that installs the hook.
HAS_HOOK(p) == progHook /\ procs[p].pc # "start"

\* fork_hook, lines 476-485 (main() of every instance): FORK_REQ is tested
\* first and fork() never returns; then FORK_ON; a program that does not
\* call the hook goes straight to its normal start-up.
fork_hook(p) ==
    /\ Running(p) /\ procs[p].pc = "start"
    /\ procs' = [procs EXCEPT ![p].pc =
                    IF ~progHook THEN "main"
                    ELSE IF FORK_REQ_ENV \in procs[p].env THEN "fork"
                    ELSE IF FORK_ENV \in procs[p].env THEN "run"
                    ELSE "main"]
    /\ UNCHANGED <<nproc, gpidFile, progHook, holdRet, spawnHoldRet, holdStatus, held, pidFile>>

\* fork, line 427: nix::unistd::fork().  The child is a copy of the caller.
fork(p) ==
    /\ Running(p) /\ procs[p].pc = "fork"
    /\ nproc < MaxProcs
    /\ nproc' = nproc + 1
    /\ procs' = [procs EXCEPT
          ![p].pc = "fork_parent", ![p].kid = nproc',
          ![nproc'] = [state |-> "run", pc |-> "fork_child", env |-> procs[p].env,
                       parent |-> p, by |-> "fork", kid |-> InitPid, wstatus |-> 0]]
    /\ UNCHANGED <<gpidFile, progHook, holdRet, spawnHoldRet, holdStatus, held, pidFile>>

\* fork, line 427: fork() fails and expect("Can't fork") panics (exit
\* code 101), or the instance is killed before it has forked.
fork_abort(p) ==
    /\ Running(p) /\ procs[p].pc = "fork"
    /\ \E raw \in {RawExited(101), RawSignaled(SIGKILL, FALSE)} :
          procs' = AfterExit([procs EXCEPT ![p].wstatus = raw], p)
    /\ UNCHANGED <<nproc, gpidFile, progHook, holdRet, spawnHoldRet, holdStatus, held, pidFile>>

\* Mutant: the parent does not wait for its child.
fork_parent_waitpid_skip(p) == TRUE

\* fork, line 430: waitpid(Some(child), None) returns once the child has
\* exited.
fork_parent_waitpid(p) == procs[procs[p].kid].state = "zombie"

\* fork, lines 428-431 and 447: the parent waits for the child and exits.
fork_parent(p) ==
    /\ Running(p) /\ procs[p].pc = "fork_parent"
    /\ fork_parent_waitpid(p)
    /\ procs' = AfterExit([procs EXCEPT ![procs[p].kid].state =
                                          IF @ = "zombie" THEN "gone" ELSE @], p)
    /\ UNCHANGED <<nproc, gpidFile, progHook, holdRet, spawnHoldRet, holdStatus, held, pidFile>>

\* fork, lines 432-442: setsid, then the child launches a new instance of
\* the program with FORK_ENV added to its environment.
fork_child(p) ==
    /\ Running(p) /\ procs[p].pc = "fork_child"
    /\ nproc < MaxProcs
    /\ nproc' = nproc + 1
    /\ procs' = [procs EXCEPT
          ![p].pc = "put_gpid", ![p].kid = nproc',
          ![nproc'] = Started(GuardEnv(procs[p].env), p, "fork_child")]
    /\ UNCHANGED <<gpidFile, progHook, holdRet, spawnHoldRet, holdStatus, held, pidFile>>

\* fork, lines 443-444: put_val(.gpid, pid).ok(): the pid of that instance
\* is written to .gpid; when the write fails the error is dropped.
put_gpid(p) ==
    /\ Running(p) /\ procs[p].pc = "put_gpid"
    /\ \E ok \in BOOLEAN :
          gpidFile' = IF ok THEN procs[p].kid ELSE gpidFile
    /\ procs' = [procs EXCEPT ![p].pc = "fork_exit"]
    /\ UNCHANGED <<nproc, progHook, holdRet, spawnHoldRet, holdStatus, held, pidFile>>

\* fork, line 447: std::process::exit(0) in the child, which does not wait
\* for the instance it launched.
fork_exit(p) ==
    /\ Running(p) /\ procs[p].pc = "fork_exit"
    /\ procs' = AfterExit(procs, p)
    /\ UNCHANGED <<nproc, gpidFile, progHook, holdRet, spawnHoldRet, holdStatus, held, pidFile>>

\* waitpid(pid, WNOHANG) in process p answers only for a child of p.
HeldChildOf(p, pid) ==
    pid = HeldPid /\ held.parent = p /\ held.state \in {"running", "zombie"}

\* run, lines 400-421: "Err" when .pid cannot be read (line 402) or waitpid
\* fails (lines 404, 414); "Ok" when the process has ended (lines 405-408,
\* 415-416); "poll" while the loop of lines 413-419 goes on.
RunOutcome(p) ==
    IF pidFile = NoFile THEN "Err"
    ELSE IF ~HeldChildOf(p, pidFile) THEN "Err"
    ELSE IF held.state = "running" THEN "poll"
    ELSE "Ok"

\* fork_hook, line 483: Self::new(path).run().ok(), and fork_hook returns
\* into main() whatever run() returned.
run(p) ==
    /\ Running(p) /\ procs[p].pc = "run"
    /\ RunOutcome(p) # "poll"
    /\ held' = IF RunOutcome(p) = "Ok" THEN [held EXCEPT !.state = "gone"] ELSE held
    /\ procs' = [procs EXCEPT ![p].pc = "main"]
    /\ UNCHANGED <<nproc, gpidFile, progHook, holdRet, spawnHoldRet, holdStatus, pidFile>>

\* spawn_hold, line 220: Self::spawn(command, dir).await?  The held
\* process is a child of the caller; an error of spawn is returned.
spawn_hold(p) ==
    /\ p = RootPid /\ Running(p) /\ procs[p].pc = "main"
    /\ held.state = "none" /\ spawnHoldRet = "-"
    /\ \E ok \in BOOLEAN :
          IF ok THEN /\ held' = [state |-> "running", parent |-> p]
                     /\ UNCHANGED spawnHoldRet
          ELSE /\ spawnHoldRet' = "Err"
               /\ UNCHANGED held
    /\ UNCHANGED <<procs, nproc, gpidFile, progHook, holdRet, holdStatus, pidFile>>

\* The held command ends.
HeldExit ==
    /\ held.state = "running"
    /\ held' = [held EXCEPT !.state = IF held.parent = InitPid THEN "gone" ELSE "zombie"]
    /\ UNCHANGED <<procs, nproc, gpidFile, progHook, holdRet, spawnHoldRet, holdStatus, pidFile>>

\* Mutant: spawn_hold that looks at the exit status inside the Ok.
spawn_hold_ret_checked(r, st) == IF r = "Ok" /\ Success(st) THEN "Ok" ELSE "Err"

\* spawn_hold, lines 221-222: hold_process(..).await? and Ok(out); the
\* ExitStatus st inside an Ok of hold_process is dropped.
spawn_hold_ret(r, st) == IF r = "Ok" THEN "Ok" ELSE "Err"

\* Mutant: the hook-missing error path kills and reaps the held process.
hold_process_kills(p) ==
    /\ p = RootPid /\ Running(p) /\ procs[p].pc = "main" /\ holdRet = "-"
    /\ held.state # "none" /\ spawnHoldRet = "-"
    /\ IF ~HAS_HOOK(p)
       THEN /\ holdRet' = "Unsupported"
            /\ spawnHoldRet' = spawn_hold_ret(holdRet', NoStatus)
            /\ held' = [held EXCEPT !.state = "gone"]
            /\ UNCHANGED <<procs, nproc>>
       ELSE /\ nproc < MaxProcs
            /\ nproc' = nproc + 1
            /\ procs' = [procs EXCEPT
                  ![p].pc = "hold_wait", ![p].kid = nproc',
                  ![nproc'] = Started(RequestEnv(procs[p].env), p, "hold_process")]
            /\ UNCHANGED <<holdRet, spawnHoldRet, held>>
    /\ UNCHANGED <<gpidFile, progHook, holdStatus, pidFile>>

\* hold_process, lines 454-465, called by spawn_hold (line 221): the
\* Unsupported error without the hook, else an instance marked FORK_REQ.
hold_process(p) ==
    /\ p = RootPid /\ Running(p) /\ procs[p].pc = "main" /\ holdRet = "-"
    /\ held.state # "none" /\ spawnHoldRet = "-"
    /\ IF ~HAS_HOOK(p)
       THEN /\ holdRet' = "Unsupported"
            /\ spawnHoldRet' = spawn_hold_ret(holdRet', NoStatus)
            /\ UNCHANGED <<procs, nproc>>
       ELSE /\ nproc < MaxProcs
            /\ nproc' = nproc + 1
            /\ procs' = [procs EXCEPT
                  ![p].pc = "hold_wait", ![p].kid = nproc',
                  ![nproc'] = Started(RequestEnv(procs[p].env), p, "hold_process")]
            /\ UNCHANGED <<holdRet, spawnHoldRet>>
    /\ UNCHANGED <<gpidFile, progHook, holdStatus, held, pidFile>>

\* hold_process, line 466: handle.wait().await
hold_wait(p) ==
    /\ Running(p) /\ procs[p].pc = "hold_wait"
    /\ procs[procs[p].kid].state = "zombie"
    /\ procs' = [procs EXCEPT ![procs[p].kid].state = "gone", ![p].pc = "main"]
    /\ holdRet' = "Ok"
    /\ holdStatus' = procs[procs[p].kid].wstatus
    /\ spawnHoldRet' = spawn_hold_ret(holdRet', holdStatus')
    /\ UNCHANGED <<nproc, gpidFile, progHook, held, pidFile>>

\* The controller program exits after its daemonization request.
RequesterExit(p) ==
    /\ p = RootPid /\ Running(p) /\ procs[p].pc = "main" /\ holdRet # "-"
    /\ procs' = AfterExit(procs, p)
    /\ held' = HeldAfterExit(held, p)
    /\ UNCHANGED <<nproc, gpidFile, progHook, holdRet, spawnHoldRet, holdStatus, pidFile>>

(***************************************************************************)
(* SpecVec: collection::CircularVec under push and pop, next to a          *)
(* reference bounded FIFO queue that discards its oldest element when full.*)
(***************************************************************************)
\* Capacities CircularVec::new is called with, and the items pushed.
MaxCap == 3
MaxItem == 2
Items == 1..MaxItem

\* Option::None in a slot or as a return value.
NoItem == 0

\* self.vec.len()
Cap == Cardinality(DOMAIN vec)

NoRet == [op |-> "none", out |-> NoItem, ref |-> NoItem]

\* CircularVec::new(size), lines 17-23, for size in 1..MaxCap.
InitVec ==
    /\ \E size \in 1..MaxCap : vec = [i \in 0..(size - 1) |-> NoItem]
    /\ head = 0
    /\ tail = 0
    /\ queue = << >>
    /\ cvRet = NoRet

IdleVec ==
    /\ vec = [i \in 0..0 |-> NoItem]
    /\ head = 0
    /\ tail = 0
    /\ queue = << >>
    /\ cvRet = NoRet

\* advance_head, lines 26-34: the new value of self.head.
advance_head == IF head + 1 = Cap THEN 0 ELSE head + 1

\* Mutant: advance_tail that leaves the index where it is.
advance_tail_stay == tail

\* advance_tail, lines 37-45: the new value of self.tail.
advance_tail == IF tail + 1 = Cap THEN 0 ELSE tail + 1

\* The reference queue: push discards and returns the oldest element when
\* Cap elements are stored.
RefPush(q, x) == IF Len(q) = Cap THEN Append(Tail(q), x) ELSE Append(q, x)
RefPushRet(q) == IF Len(q) = Cap THEN Head(q) ELSE NoItem
RefPop(q) == IF q = << >> THEN q ELSE Tail(q)
RefPopRet(q) == IF q = << >> THEN NoItem ELSE Head(q)

\* CircularVec::push, lines 48-59.
push(item) ==
    LET last0 == vec[head] IN
    /\ vec' = [vec EXCEPT ![head] = item]
    /\ tail' = IF head = tail /\ last0 # NoItem THEN advance_tail ELSE tail
    /\ head' = advance_head
    /\ queue' = RefPush(queue, item)
    /\ cvRet' = [op |-> "push", out |-> last0, ref |-> RefPushRet(queue)]

\* CircularVec::pop, lines 62-74.
pop ==
    /\ IF head = tail
       THEN LET ent == vec[tail] IN
            /\ vec' = [vec EXCEPT ![tail] = NoItem]
            /\ tail' = IF ent # NoItem THEN advance_tail ELSE tail
            /\ cvRet' = [op |-> "pop", out |-> ent, ref |-> RefPopRet(queue)]
       ELSE /\ tail' = advance_tail
            /\ vec' = [vec EXCEPT ![tail] = NoItem]
            /\ cvRet' = [op |-> "pop", out |-> vec[tail], ref |-> RefPopRet(queue)]
    /\ queue' = RefPop(queue)
    /\ UNCHANGED head

\* CircularVec::len, lines 77-86.
len == IF tail < head THEN head - tail ELSE Cap

\* CircularVec::is_empty, lines 89-91.
is_empty == vec[tail] = NoItem

\* Mutant: is_full without the look at the slot.
is_full_index_only == head = tail

\* CircularVec::is_full, lines 94-98.
is_full == head = tail /\ vec[tail] # NoItem

\* CircularVecIter::next, lines 121-130, called until it returns None (as
\* collect does), starting with the counter self.1 = idx.
RECURSIVE IterFrom(_)
IterFrom(idx) ==
    IF idx >= len THEN << >>
    ELSE LET e == vec[(tail + idx) % Cap] IN
         IF e = NoItem THEN << >> ELSE <<e>> \o IterFrom(idx + 1)

\* CircularVec::iter, lines 111-113, collected.
iter == IterFrom(0)

(***************************************************************************)
(* SpecPath: fs::path::normalize(base, p) on every short path p.           *)
(***************************************************************************)
\* The longest path p, in segments between separators.
MaxPathLen == 3

\* std::path::Component on unix: RootDir, CurDir, ParentDir, Normal(name).
RootDir == "/"
CurDir == "."
ParentDir == ".."
Names == {"a", "srv"}

\* A path as written: absolute or not, and its segments.
Segments == {CurDir, ParentDir} \cup Names
BoundedSeq(S, n) == UNION {[1..k -> S] : k \in 0..n}
RawPaths == [abs : BOOLEAN, segs : BoundedSeq(Segments, MaxPathLen)]

\* The base directory, as components.
Base == <<RootDir, "srv">>

\* Path::components(), line 12: the root first; a `.` is kept only as the
\* first component of a relative path and dropped everywhere else.
Components(p) ==
    (IF p.abs THEN <<RootDir>>
     ELSE IF p.segs # << >> /\ p.segs[1] = CurDir THEN <<CurDir>>
     ELSE << >>)
    \o SelectSeq(p.segs, LAMBDA c : c # CurDir)

\* normalize, lines 13-31: one component against the stack.
StackStep(stack, component) ==
    IF component = CurDir THEN stack
    ELSE IF component = ParentDir
    THEN IF stack = << >> THEN Append(stack, component)
         ELSE LET top == stack[Len(stack)] IN
              IF top = RootDir THEN stack
              ELSE IF top = ParentDir THEN Append(stack, component)
              ELSE SubSeq(stack, 1, Len(stack) - 1)
    ELSE Append(stack, component)

\* normalize, lines 11-32: the stack after the first k components.
RECURSIVE StackAfter(_, _)
StackAfter(comps, k) ==
    IF k = 0 THEN << >> ELSE StackStep(StackAfter(comps, k - 1), comps[k])

\* PathBuf::push, line 40: an absolute component replaces the buffer.
PathPush(bf, x) == IF x = RootDir THEN <<x>> ELSE Append(bf, x)

\* normalize, lines 34-42: the buffer after the first k stack entries.
RECURSIVE BufAfter(_, _)
BufAfter(stack, k) ==
    IF k = 0 THEN Base ELSE PathPush(BufAfter(stack, k - 1), stack[k])

NoPath == [kind |-> "-", path |-> << >>]

\* fn normalize(base, p), lines 9-43.
normalize(p) ==
    LET stack == StackAfter(Components(p), Len(Components(p))) IN
    IF stack = << >> THEN [kind |-> "Ok", path |-> Base]
    ELSE IF \E i \in 1..Len(stack) : stack[i] = ParentDir
    THEN [kind |-> "Err", path |-> << >>]
    ELSE [kind |-> "Ok", path |-> BufAfter(stack, Len(stack))]

InitPath ==
    /\ npIn \in RawPaths
    /\ npOut = NoPath

IdlePath ==
    /\ npIn = [abs |-> FALSE, segs |-> << >>]
    /\ npOut = NoPath

Normalize ==
    /\ npOut = NoPath
    /\ npOut' = normalize(npIn)
    /\ UNCHANGED npIn

(***************************************************************************)
(* The specifications.                                                     *)
(***************************************************************************)
Init ==
    /\ InitProc
    /\ IdleExit
    /\ IdleSpawn
    /\ IdleFork
    /\ IdleVec
    /\ IdlePath

Next ==
    \/ \E long \in BOOLEAN, hold \in BOOLEAN : spawn(long, hold) /\ UNCHANGED notProcVars
    \/ \E long \in BOOLEAN, hold \in BOOLEAN : spawn_noerr(long, hold) /\ UNCHANGED notProcVars
    \/ pid_reuse /\ UNCHANGED notProcVars
    \/ \E c \in ChildExitCodes : ProcExit(c) /\ UNCHANGED notProcVars
    \/ \E i \in Insts : InstExit(i) /\ UNCHANGED notProcVars
    \/ \E i \in Insts : attach(i) /\ UNCHANGED notProcVars
    \/ \E i \in Insts : attach_open(i) /\ UNCHANGED notProcVars
    \/ \E i \in Insts, k \in HandleKinds : id(i, k) /\ UNCHANGED notProcVars
    \/ \E i \in Insts, k \in HandleKinds : wait(i, k) /\ UNCHANGED notProcVars
    \/ \E i \in Insts, k \in HandleKinds : try_wait(i, k) /\ UNCHANGED notProcVars
    \/ \E i \in Insts, k \in HandleKinds : start_kill(i, k) /\ UNCHANGED notProcVars
    \/ \E i \in Insts, k \in HandleKinds : kill_start(i, k) /\ UNCHANGED notProcVars
    \/ \E i \in Insts : kill_wait(i) /\ UNCHANGED notProcVars

Spec == Init /\ [][Next]_vars

InitE ==
    /\ InitExit
    /\ InitProc
    /\ IdleSpawn
    /\ IdleFork
    /\ IdleVec
    /\ IdlePath

NextExit == Translate /\ UNCHANGED notExitVars

SpecExit == InitE /\ [][NextExit]_vars

InitS ==
    /\ InitSpawn
    /\ InitProc
    /\ IdleExit
    /\ IdleFork
    /\ IdleVec
    /\ IdlePath

NextSpawn ==
    \/ sp_remove /\ UNCHANGED notSpawnVars
    \/ sp_remove_err /\ UNCHANGED notSpawnVars
    \/ sp_mkfifo /\ UNCHANGED notSpawnVars
    \/ sp_mkfifo_err /\ UNCHANGED notSpawnVars
    \/ sp_tokio_spawn /\ UNCHANGED notSpawnVars
    \/ bg_poll /\ UNCHANGED notSpawnVars
    \/ bg_poll_err /\ UNCHANGED notSpawnVars
    \/ \E p \in PipeNames : peer_open(p) /\ UNCHANGED notSpawnVars
    \/ sub_open /\ UNCHANGED notSpawnVars
    \/ sub_open_err /\ UNCHANGED notSpawnVars
    \/ bg_open /\ UNCHANGED notSpawnVars
    \/ bg_open_err /\ UNCHANGED notSpawnVars
    \/ sp_command_spawn /\ UNCHANGED notSpawnVars
    \/ sp_command_spawn_err /\ UNCHANGED notSpawnVars
    \/ sp_await /\ UNCHANGED notSpawnVars
    \/ sp_await_err /\ UNCHANGED notSpawnVars
    \/ \E b \in Bytes : ctl_write(b) /\ UNCHANGED notSpawnVars
    \/ ctl_shutdown /\ UNCHANGED notSpawnVars
    \/ cat_read /\ UNCHANGED notSpawnVars
    \/ cat_write /\ UNCHANGED notSpawnVars
    \/ cat_eof /\ UNCHANGED notSpawnVars
    \/ ctl_read /\ UNCHANGED notSpawnVars
    \/ ctl_read_eof /\ UNCHANGED notSpawnVars
    \/ doc_start_kill /\ UNCHANGED notSpawnVars
    \/ doc_kill_wait /\ UNCHANGED notSpawnVars
    \/ spawn_again /\ UNCHANGED notSpawnVars

SpecSpawn == InitS /\ [][NextSpawn]_vars

InitF ==
    /\ InitFork
    /\ InitProc
    /\ IdleExit
    /\ IdleSpawn
    /\ IdleVec
    /\ IdlePath

NextFork ==
    \/ \E p \in Pids : fork_hook(p) /\ UNCHANGED notForkVars
    \/ \E p \in Pids : fork(p) /\ UNCHANGED notForkVars
    \/ \E p \in Pids : fork_abort(p) /\ UNCHANGED notForkVars
    \/ \E p \in Pids : fork_parent(p) /\ UNCHANGED notForkVars
    \/ \E p \in Pids : fork_child(p) /\ UNCHANGED notForkVars
    \/ \E p \in Pids : put_gpid(p) /\ UNCHANGED notForkVars
    \/ \E p \in Pids : fork_exit(p) /\ UNCHANGED notForkVars
    \/ \E p \in Pids : run(p) /\ UNCHANGED notForkVars
    \/ \E p \in Pids : spawn_hold(p) /\ UNCHANGED notForkVars
    \/ HeldExit /\ UNCHANGED notForkVars
    \/ \E p \in Pids : hold_process(p) /\ UNCHANGED notForkVars
    \/ \E p \in Pids : hold_wait(p) /\ UNCHANGED notForkVars
    \/ \E p \in Pids : RequesterExit(p) /\ UNCHANGED notForkVars

SpecFork == InitF /\ [][NextFork]_vars

InitV ==
    /\ InitVec
    /\ InitProc
    /\ IdleExit
    /\ IdleSpawn
    /\ IdleFork
    /\ IdlePath

NextVec ==
    \/ \E item \in Items : push(item) /\ UNCHANGED notVecVars
    \/ pop /\ UNCHANGED notVecVars

SpecVec == InitV /\ [][NextVec]_vars

InitP ==
    /\ InitPath
    /\ InitProc
    /\ IdleExit
    /\ IdleSpawn
    /\ IdleFork
    /\ IdleVec

NextPath == Normalize /\ UNCHANGED notPathVars

SpecPath == InitP /\ [][NextPath]_vars

(***************************************************************************)
(* Claims about the handle operations (specification Spec).                *)
(***************************************************************************)
\* C3: daemonization round trip.  After a successful spawn_hold and the
\* exit of the Requester (instance A), attach called by the fresh instance
\* B while the held process runs returns a live handle (not the empty case,
\* not an error), and wait() on an Attached handle returns the status that
\* awaiting the held process directly would have returned (the raw wait
\* status the kernel recorded).
C3_RoundTrip ==
    /\ (/\ last.op = "attach" /\ last.inst = "B" /\ ~last.parentAlive
        /\ last.pre.held /\ last.pre.state = "running")
       => last.out = "Some"
    /\ (last.op = "wait" /\ last.kind = "Attached" /\ last.out = "Ok")
       => last.status = last.pre.wstatus

\* C4: attach on a pid whose process has already terminated (reaped, an
\* unreaped zombie child of the caller, or never a child of the caller)
\* returns Ok(None): it never passes the probe, never returns a handle and
\* never returns an error.
C4_AttachTerminatedIsNone ==
    /\ \A i \in Insts : att[i].pc = "open" => att[i].pre.state = "running"
    /\ (last.op = "attach" /\ last.pre.state \in {"zombie", "reaped"})
       => last.out = "None"

\* C5: attach on a pid of a live process spawned in the same working
\* directory passes the probe and returns the Attached variant, for any
\* calling instance (in particular B, which is not the OS parent).
C5_AttachLiveIsHandle ==
    (last.op = "attach" /\ last.pre.state = "running")
       => (last.out = "Some" /\ last.kind = "Attached")

\* C6: kill() on a freshly spawned command that would keep running: the
\* signal is delivered before the wait, and the call returns Ok with a
\* status that is not a success and is terminated-by-signal.
C6_KillFresh ==
    /\ \A i \in Insts :
          (killing[i].kind = "Owned" /\ killing[i].fresh /\ killing[i].pre.long)
             => proc.state # "running"
    /\ (last.op = "kill" /\ last.kind = "Owned" /\ last.fresh /\ last.pre.long)
       => (/\ last.out = "Ok"
           /\ ~Success(last.status)
           /\ IfSignaled(last.status))

\* C6 witness: such a kill() has returned.
C6_Witness ==
    /\ last.op = "kill" /\ last.kind = "Owned" /\ last.fresh /\ last.pre.long
    /\ last.out = "Ok" /\ TermSignal(last.status) = SIGKILL

\* C7: try_wait() on a process that is still running returns Ok(None) and
\* leaves the process as it was, for the Owned and the Attached variant;
\* it returns Some(status) only for a process that has terminated.
C7_TryWait ==
    last.op = "try_wait" =>
       /\ last.pre.state = "running" => (last.out = "None" /\ last.post = last.pre)
       /\ last.out = "Some" => last.pre.state \in {"zombie", "reaped"}

\* C7 witness: try_wait on an Attached handle of a running process returned.
C7_Witness ==
    /\ last.op = "try_wait" /\ last.kind = "Attached"
    /\ last.pre.state = "running" /\ last.out = "None"

(***************************************************************************)
(* Claims about the exit-status translation (specification SpecExit).      *)
(***************************************************************************)
\* C8: the translation is total: every raw wait outcome (exited, signaled,
\* stopped, ptrace event, ptrace syscall, continued, still-alive) maps to a
\* defined exit status, and the non-terminal outcomes (continued,
\* still-alive) map to a status whose success predicate is false.
C8_Total ==
    exOut # NoStatus =>
       /\ exOut \in 0..255
       /\ wsIn.kind \in {"Continued", "StillAlive"} => ~Success(exOut)

\* C8 witness: a non-terminal outcome has been translated.
C8_Witness == exOut # NoStatus /\ wsIn.kind = "Continued"

\* C9: the translation preserves kind and value: a process that exited
\* with code c in 0..255 translates to a status that reports exit code c
\* (success exactly when c = 0, not terminated by a signal), and a process
\* killed by signal s translates to a status that reports signal s and no
\* exit code.
C9_Preserves ==
    exOut # NoStatus =>
       /\ wsIn.kind = "Exited" =>
             /\ Code(exOut) = wsIn.n
             /\ Success(exOut) <=> wsIn.n = 0
             /\ ~IfSignaled(exOut)
       /\ wsIn.kind = "Signaled" =>
             /\ TermSignal(exOut) = wsIn.n
             /\ Code(exOut) = NoStatus

(***************************************************************************)
(* Claims about spawn and the pipe bridge (specification SpecSpawn).       *)
(***************************************************************************)
\* A spawn call is in flight and none of its filesystem operations failed
\* or is bound to fail (mkfifo on a path that is still taken).
SpawnInFlight ==
    /\ cpc \notin {"ret_ok", "ret_err"} /\ bpc # "done_err"
    /\ cpc = "mkfifo" => \A p \in PipeNames : MkfifoOk(paths[p])

\* C1: every spawn call whose filesystem operations succeed finishes
\* opening the three pipes on both sides and returns: under every
\* scheduling of the calling task and the background task there is no
\* reachable state in which the call is in flight and neither side can
\* take its next step.
C1_SpawnNeverStuck == SpawnInFlight => ENABLED SpawnStep

\* The same on the multi-thread runtime alone, where a worker other than
\* the caller's thread polls the background task.
SpawnNeverStuckMultiThread ==
    (rt = "multi_thread" /\ SpawnInFlight) => ENABLED SpawnStep

\* C2: for a child that copies its stdin to its stdout, the bytes read from
\* the handle's stdout endpoint are those written to its stdin endpoint, in
\* order: at every moment the bytes read, followed by those still in the
\* stdout pipe, in the child and in the stdin pipe, are exactly the bytes
\* written; at end of file everything written has been read.
C2_EchoRoundTrip ==
    /\ received \o buf[HandleStdout] \o catBuf \o buf[HandleStdin] = sent
    /\ outEof => received = sent

\* C2 witness: two different bytes have made the round trip and the
\* controller has read end of file.
C2_Witness ==
    /\ outEof /\ Len(received) >= 2
    /\ received[1] # received[2] /\ received = sent

(***************************************************************************)
(* Claims about the daemonization protocol (specification SpecFork).       *)
(***************************************************************************)
Forked == {p \in Pids : procs[p].by = "fork"}
GuardInstances == {p \in Pids : procs[p].by = "fork_child"}

\* C10: one daemonization request follows Requester -> Fork-Parent ->
\* Fork-Child -> Guard, each role taken once: there is one fork, its child
\* launches one instance marked FORK_ON, and that instance is the Guard: it
\* goes to the supervision code and never forks or launches an instance.
C10_EachRoleOnce ==
    /\ Cardinality(Forked) <= 1
    /\ Cardinality(GuardInstances) <= 1
    /\ \A p \in GuardInstances :
          /\ FORK_ENV \in procs[p].env
          /\ procs[p].pc \notin {"fork", "fork_parent"}
          /\ procs[p].kid = InitPid

\* C11: the Guard owns the lifetime of the held process: once the instance
\* that the Fork-Child launched has gone through its start-up hook, it is
\* alive and in the supervision code (run) for as long as the held process
\* is running.
C11_GuardSupervises ==
    \A p \in GuardInstances :
       (procs[p].pc # "start" /\ held.state = "running")
          => (Running(p) /\ procs[p].pc = "run")

\* C12: fork_hook returns into the normal start-up of the program only in
\* an instance that was started with neither marker: an instance that has
\* FORK_REQ or FORK_ON in its environment never gets to main()'s own code.
C12_HookReturnsOnlyUnmarked ==
    \A p \in Pids :
       (progHook /\ procs[p].pc \in {"main", "hold_wait"})
          => procs[p].env \cap {FORK_REQ_ENV, FORK_ENV} = {}

\* C13: in a program that never calls fork_hook, hold_process launches no
\* instance marked FORK_REQ and returns the Unsupported error, and
\* spawn_hold returns that error, not a handle.
C13_NoHookUnsupported ==
    ~progHook =>
       /\ \A p \in Pids : procs[p].by # "hold_process"
       /\ holdRet \in {"-", "Unsupported"}
       /\ holdRet = "Unsupported" => spawnHoldRet = "Err"

\* C13 witness: spawn_hold has spawned the command and hold_process has
\* returned Unsupported.
C13_Witness ==
    /\ ~progHook /\ held.state = "running"
    /\ holdRet = "Unsupported" /\ spawnHoldRet = "Err"

\* The processes that daemonization has created and that are still alive.
AliveCreated == {p \in Pids \ {RootPid} : Running(p)}

\* C14: once the Requester's wait in hold_process has returned, the only
\* process of the daemonization that is still alive is the Guard: one
\* instance launched by the Fork-Child, whose parent is init, and it stays
\* so after the Requester has exited.
C14_OnlyGuardLeft ==
    holdRet = "Ok" =>
       /\ AliveCreated \subseteq GuardInstances
       /\ Cardinality(AliveCreated) = 1
       /\ \A p \in AliveCreated : procs[p].parent = InitPid

\* C15: after a successful spawn_hold the .pid file of the working
\* directory holds the pid of the held process.
C15_PidFileHoldsHeldPid == spawnHoldRet = "Ok" => pidFile = HeldPid

\* C16: in the step in which a Fork-Child exits, the guard file .gpid
\* holds the pid of the instance that this Fork-Child launched.
C16_GpidAtExit ==
    [][\A p \in Pids :
          (procs[p].pc = "fork_exit" /\ procs'[p].pc = "exited")
             => gpidFile = procs[p].kid]_vars

\* C17: when spawn returns an error of a filesystem operation (removing an
\* old pipe, creating a pipe, opening the subject side or the controller
\* side of a pipe), the call has created no OS process.
C17_FsErrorNoProcess == cpc = "ret_err" => child = "none"

(***************************************************************************)
(* Further claims about the handle operations (specification Spec).        *)
(***************************************************************************)
\* C18: id() returns Some(pid) on an Owned handle in every state after a
\* successful spawn, also after wait(), try_wait() or kill() has returned
\* the exit status, and on an Attached handle in every state.
C18_IdAlwaysSome == last.op = "id" => last.out = "Some"

\* A step in which the kill() of instance i returns from its wait.
KillWaitReturns(i) ==
    killing[i].kind # "none" /\ killing'[i].kind = "none" /\ alive'[i]

\* The status that wait() on a handle of kind k reports for raw status raw.
WaitReports(k, raw) == IF k = "Owned" THEN raw ELSE wait_attached_status(raw)

\* C19: kill() is start_kill() followed by wait(), and the two are not
\* atomic.  (a) A kill() between its two calls can always finish: it never
\* hangs.  (b) A kill() that returns without having issued its wait returns
\* the error of start_kill and has reaped nothing.  (c) A kill() that
\* returns from its wait returns the wait error when the target was reaped
\* behind its back between the signal and the wait, and otherwise Ok with
\* the status that wait reports for the recorded wait status.
C19_KillComposed ==
    /\ [](\A i \in Insts : killing[i].kind # "none" => ENABLED kill_wait(i))
    /\ [][\A i \in Insts :
             /\ (/\ last' # last /\ last'.op = "kill" /\ last'.inst = i
                 /\ killing[i].kind = "none")
                => (last'.out = "Err" /\ proc' = proc /\ owned' = owned)
             /\ KillWaitReturns(i)
                => /\ last'.op = "kill" /\ last'.inst = i
                   /\ IF proc.state = "reaped"
                      THEN last'.out = "Err" /\ last'.status = NoStatus
                      ELSE /\ last'.out = "Ok"
                           /\ last'.status = WaitReports(killing[i].kind, proc.wstatus)
                           /\ proc'.state = "reaped"]_vars

\* C19 witness: a kill() whose signal was sent to the running process has
\* returned the wait error, the process having been reaped in between by
\* another waitpid of the same instance.
C19_Witness ==
    /\ last.op = "kill" /\ last.out = "Err"
    /\ last.pre.state = "running" /\ last.post.state = "reaped"

(***************************************************************************)
(* Further claims about spawn and its example (specification SpecSpawn).   *)
(***************************************************************************)
\* C20: in the documented example the kill() issued after the write task
\* and the read task have completed returns a status whose success
\* predicate is true, however the child's own exit on end of input and the
\* delivery of the kill signal interleave.
C20_DocKillSucceeds == killPc = "done" => Success(ex)

(***************************************************************************)
(* Claims about CircularVec (specification SpecVec).                       *)
(***************************************************************************)
\* C21: under any sequence of push and pop the CircularVec behaves like
\* the reference bounded FIFO queue: every push and pop returns what the
\* reference returns (the discarded oldest element or None; the oldest
\* element or None), and iter() yields the stored elements oldest first.
C21_RefinesQueue ==
    /\ cvRet.out = cvRet.ref
    /\ iter = queue

\* C21 witness: a push on a full vec of capacity above 1 has returned the
\* discarded element, after the indices have wrapped around, and iter()
\* yields Cap elements.
C21_Witness ==
    /\ cvRet.op = "push" /\ cvRet.out # NoItem
    /\ Cap > 1 /\ tail = 1 /\ Len(iter) = Cap /\ iter[1] # iter[Cap]

\* C22: len() is the number of elements stored, in every reachable state.
C22_LenIsCount == len = Len(queue)

\* C23: is_empty() is true exactly when no element is stored and is_full()
\* exactly when Cap elements are stored.
C23_EmptyFull ==
    /\ is_empty <=> Len(queue) = 0
    /\ is_full <=> Len(queue) = Cap

\* C23 witness: head and tail are equal again after elements have been
\* pushed and popped, and the vec is empty.
C23_Witness ==
    /\ head = tail /\ head # 0 /\ is_empty /\ cvRet.op = "pop"

(***************************************************************************)
(* Claims about fs::path::normalize (specification SpecPath).              *)
(***************************************************************************)
\* A path is contained in the base directory: the base is a prefix of it
\* and it has no parent-directory component.
Contained(path) ==
    /\ IsPrefix(Base, path)
    /\ \A i \in 1..Len(path) : path[i] # ParentDir

\* A relative path leaves the base directory at some point: one of its
\* prefixes has more `..` than names.
Leaves(p) ==
    /\ ~p.abs
    /\ \E k \in 1..Len(p.segs) :
          Cardinality({i \in 1..k : p.segs[i] = ParentDir})
             > Cardinality({i \in 1..k : p.segs[i] \in Names})

\* C24: normalize(base, p) returns Ok(path) only for a path contained in
\* the base directory, for every p, absolute paths and paths with `.` and
\* `..` included, and an InvalidInput error for every input that would
\* leave the base directory.
C24_Contained ==
    npOut # NoPath =>
       /\ npOut.kind = "Ok" => Contained(npOut.path)
       /\ Leaves(npIn) => npOut.kind = "Err"

(***************************************************************************)
(* Further claims about the daemonization protocol (specification SpecFork)*)
(***************************************************************************)
\* The instances that have forked.
ForkParents == {p \in Pids : procs[p].kid # InitPid /\ procs[procs[p].kid].by = "fork"}

\* C25: a fork-parent branch has exited only when its forked child has
\* exited; the Requester's wait on the FORK_REQ-marked instance has
\* returned only when that instance and its forked child have exited; and
\* a Fork-Child that has launched its instance and written .gpid can exit
\* whatever that instance is doing.
C25_ExitOrder ==
    /\ \A p \in ForkParents :
          procs[p].pc = "exited" => procs[procs[p].kid].pc = "exited"
    /\ holdRet = "Ok" =>
          LET i == procs[RootPid].kid IN
          /\ procs[i].pc = "exited"
          /\ i \in ForkParents => procs[procs[i].kid].pc = "exited"
    /\ \A p \in Pids :
          (Running(p) /\ procs[p].pc = "fork_exit") => ENABLED fork_exit(p)

\* C25 witness: the Requester's wait has returned, the FORK_REQ-marked
\* instance and its Fork-Child have exited, and the instance the
\* Fork-Child launched is still running.
C25_Witness ==
    /\ holdRet = "Ok"
    /\ LET i == procs[RootPid].kid IN
       /\ i \in ForkParents
       /\ procs[procs[i].kid].pc = "exited"
       /\ Running(procs[procs[i].kid].kid)

\* C27: spawn_hold starts the held process before the hook is looked at:
\* in the step in which hold_process returns the hook-missing error the
\* held process has been started and the step leaves it as it is, and
\* spawn_hold returns the error.
C27_FailedHoldLeavesProcess ==
    [][(holdRet = "-" /\ holdRet' = "Unsupported")
          => (held.state # "none" /\ held' = held /\ spawnHoldRet' = "Err")]_vars

\* C27 witness: spawn_hold has returned the hook-missing error to a caller
\* that goes on, and the held process is running.
C27_Witness ==
    /\ holdRet = "Unsupported" /\ spawnHoldRet = "Err"
    /\ Running(RootPid) /\ procs[RootPid].pc = "main"
    /\ held = [state |-> "running", parent |-> RootPid]

\* C28: whenever the FORK_REQ-marked instance was launched and waited for,
\* spawn_hold returns Ok, whatever the exit status of that instance.
C28_StatusIgnored == holdRet = "Ok" => spawnHoldRet = "Ok"

\* C28 witness: the instance ended with a status that is not a success
\* before it forked, no Guard was started, and spawn_hold returned Ok.
C28_Witness ==
    /\ holdRet = "Ok" /\ spawnHoldRet = "Ok"
    /\ ~Success(holdStatus) /\ holdStatus # NoStatus
    /\ GuardInstances = {}

(***************************************************************************)
(* The pipe set of spawn (specification SpecSpawn)                         *)
(***************************************************************************)
\* The three mkfifo calls of the current spawn call have succeeded.
SpawnCreated == cpc \in {"tokio_spawn", "open", "command_spawn", "await", "ret_ok"}

\* C26: from the moment its mkfifo calls have succeeded, and so when spawn
\* returns Ok, each of the three paths is a named pipe created by this
\* call, whatever was at the paths when the call was made: nothing, files
\* of something else, or the pipes of an earlier spawn on the directory.
C26_FreshPipes == SpawnCreated => \A p \in PipeNames : paths[p] = "fifo"

\* C26 witness: a second spawn on the directory found the three pipes of
\* the first one and has returned Ok.
C26_Witness ==
    /\ cpc = "ret_ok"
    /\ \A p \in PipeNames : paths0[p] = "prev" /\ paths[p] = "fifo"

AttachedCall(ops) == last.kind = "Attached" /\ last.op \in ops

====
